---- MODULE Spec2Model ----
(***************************************************************************)
(* A model of misc/python/materialize/mzcompose/__init__.py: the           *)
(* Composition engine of mzcompose.  The state is one Composition object   *)
(* (its live specification self.compose, the temporary file it is dumped   *)
(* to, its test results), the Service objects of the loaded mzcompose.py   *)
(* and of its workflows, and the position of the single thread of control  *)
(* inside nested override / test_case scopes and docker compose            *)
(* invocations.                                                            *)
(*                                                                         *)
(* Strings the code takes apart are modelled by their parts: a port        *)
(* "5432:5432" is <<"5432", "5432">>, an image "postgres:latest" is        *)
(* <<"postgres", "latest">>, an environment entry "NAME=value" is          *)
(* <<"NAME", value>>.  A Python dict is a function whose domain is the set *)
(* of keys present.                                                        *)
(***************************************************************************)
EXTENDS Integers, Sequences, FiniteSets, TLC

\* ------------------------------------------------------------------ bounds

\* Deepest nesting of override and test_case scopes that is explored (the
\* call in flight inside the innermost scope comes on top).
MaxDepth == 2

\* The number of Composition calls (override, test_case, up, run, exec) the
\* workflow code makes in a run.
MaxCalls == 3

\* Largest reading of the wall clock (time.time()) that is explored.
MaxClock == 1

\* ------------------------------------------------------------ dict helpers

Has(config, key) == key \in DOMAIN config

Get(config, key, default) == IF Has(config, key) THEN config[key] ELSE default

Put(config, key, value) ==
    [k \in DOMAIN config \cup {key} |-> IF k = key THEN value ELSE config[k]]

Del(config, key) == [k \in DOMAIN config \ {key} |-> config[k]]

\* A value that is in no list (the argument of a Python None).
None == <<>>

Some(value) == <<value>>

\* ------------------------------------------------------------ environment

\* os.getuid() and os.getgid() of the invoking host user.
HostUid == 1000

HostGid == 1000

\* self.repo.images: the mzbuild images the repository knows.
RepoImages == {"materialized", "testdrive"}

\* deps[name].spec(): the resolver's image reference for a build reference.
DepSpec(image_name) == <<image_name, "mzbuild-fingerprint">>

\* The tags of pull_if_variable.
VariableTags == {"latest", "unstable", "rolling"}

\* image.endswith(":" + tag) for one of the variable tags.
EndsWithVariableTag(image) ==
    Len(image) > 1 /\ image[Len(image)] \in VariableTags

\* ":" in str(port)
HasHostBinding(port) == Len(port) > 1

\* str(ports[0]).split(":")[-1]
PrivatePort(port) == port[Len(port)]

\* coverage_volume = "./coverage:/coverage"
CoverageVolume == <<"./coverage", "/coverage">>

\* f"LLVM_PROFILE_FILE=/coverage/{name}-%p-%9m%c.profraw"
LlvmProfileFile(name) ==
    <<"LLVM_PROFILE_FILE", <<"/coverage/", name, "-%p-%9m%c.profraw">> >>

\* ------------------------------------------------------- _munge_services

\* The loop over ports without the rewrite: only the check is made.
MungePortsNotPreserved(ports, i, preserve_ports, allow_host_ports) ==
    [ok |-> \A k \in 1..Len(ports) :
                HasHostBinding(ports[k]) => allow_host_ports,
     ports |-> ports]

\* The loop over ports without the check of allow_host_ports.
MungePortsUnchecked(ports, i, preserve_ports, allow_host_ports) ==
    [ok |-> TRUE,
     ports |-> [k \in 1..Len(ports) |->
                   IF preserve_ports /\ ~HasHostBinding(ports[k])
                   THEN ports[k] \o ports[k] ELSE ports[k]]]

\* The loop over ports: a port without a host binding is rewritten in place
\* when ports are preserved; a host-bound port without allow_host_ports
\* raises, leaving the rewrites made so far.
RECURSIVE MungePorts(_, _, _, _)
MungePorts(ports, i, preserve_ports, allow_host_ports) ==
    IF i > Len(ports)
    THEN [ok |-> TRUE, ports |-> ports]
    ELSE IF preserve_ports /\ ~HasHostBinding(ports[i])
    THEN MungePorts([ports EXCEPT ![i] = ports[i] \o ports[i]], i + 1,
                    preserve_ports, allow_host_ports)
    ELSE IF HasHostBinding(ports[i]) /\ ~allow_host_ports
    THEN [ok |-> FALSE, ports |-> ports]
    ELSE MungePorts(ports, i + 1, preserve_ports, allow_host_ports)

\* The index of the first environment entry that starts with
\* "LLVM_PROFILE_FILE=", or 0.
RECURSIVE FirstProfileEntry(_, _)
FirstProfileEntry(environment, i) ==
    IF i > Len(environment) THEN 0
    ELSE IF environment[i][1] = "LLVM_PROFILE_FILE" THEN i
    ELSE FirstProfileEntry(environment, i + 1)

InSeq(x, seq) == \E i \in 1..Len(seq) : seq[i] = x

\* if self.repo.rd.coverage: the volume and the environment entry.
MungeCoverage(name, config) ==
    LET withVolume ==
            IF InSeq(CoverageVolume, Get(config, "volumes", <<>>))
            THEN config
            ELSE Put(config, "volumes",
                     Append(Get(config, "volumes", <<>>), CoverageVolume))
        environment == Get(withVolume, "environment", <<>>)
        at == FirstProfileEntry(environment, 1)
    IN  IF at > 0
        THEN Put(withVolume, "environment",
                 [environment EXCEPT ![at] = LlvmProfileFile(name)])
        ELSE Put(withVolume, "environment",
                 Append(environment, LlvmProfileFile(name)))

\* propagate_uid_gid handled without removing the key.
MungeUidGidKeepsKey(config) ==
    IF Has(config, "propagate_uid_gid") /\ config["propagate_uid_gid"]
    THEN Put(config, "user", <<HostUid, HostGid>>)
    ELSE config

\* if "propagate_uid_gid" in config: ...
MungeUidGid(config) ==
    IF Has(config, "propagate_uid_gid")
    THEN Del(IF config["propagate_uid_gid"]
             THEN Put(config, "user", <<HostUid, HostGid>>)
             ELSE config,
             "propagate_uid_gid")
    ELSE config

\* One iteration of the first loop of _munge_services.  The config is the
\* dict as the iteration leaves it, also when it raises.
MungeService(name, config, preserve_ports, coverage) ==
    IF Has(config, "mzbuild") /\ config["mzbuild"] \notin RepoImages
    THEN [error |-> "unknown image", config |-> config]
    ELSE
    LET c1 == MungeUidGid(config)
        c2 == IF Has(c1, "ports") THEN c1 ELSE Put(c1, "ports", <<>>)
        mp == MungePorts(c2["ports"], 1, preserve_ports,
                         Get(c2, "allow_host_ports", FALSE))
        c3 == Put(c2, "ports", mp.ports)
        c4 == Del(c3, "allow_host_ports")
    IN  IF ~mp.ok
        THEN [error |-> "disallowed host port", config |-> c3]
        ELSE [error |-> "none",
              config |-> IF coverage THEN MungeCoverage(name, c4) ELSE c4]

\* The first loop over the (name, config) pairs; it stops at the first
\* service that raises.
RECURSIVE MungeLoop(_, _, _, _)
MungeLoop(services, i, preserve_ports, coverage) ==
    IF i > Len(services)
    THEN [error |-> "none", services |-> services]
    ELSE LET m == MungeService(services[i][1], services[i][2],
                               preserve_ports, coverage)
             after == [services EXCEPT ![i] = <<services[i][1], m.config>>]
         IN  IF m.error # "none"
             THEN [error |-> m.error, services |-> after]
             ELSE MungeLoop(after, i + 1, preserve_ports, coverage)

\* The second loop left out: the build reference stays.
InjectImageSkipped(config) == config

\* The second loop: config["image"] = deps[config["mzbuild"]].spec().
InjectImage(config) ==
    IF Has(config, "mzbuild")
    THEN Del(Put(config, "image", DepSpec(config["mzbuild"])), "mzbuild")
    ELSE config

\* _munge_services(services): the pairs as the call leaves them (the
\* configs are changed in place) and the error it raises, if any.
MungeServices(services, preserve_ports, coverage) ==
    LET first == MungeLoop(services, 1, preserve_ports, coverage)
    IN  IF first.error # "none"
        THEN first
        ELSE [error |-> "none",
              services |-> [i \in 1..Len(services) |->
                  <<first.services[i][1], InjectImage(first.services[i][2])>>]]

\* ------------------------------------------------- the Service objects

\* The Service objects of the run: those of the SERVICES list of the loaded
\* mzcompose.py, and those a workflow passes to override.
Services == <<"Materialized", "Postgres">>

ServiceObjects ==
    {"Materialized", "Postgres", "MaterializedUnstable", "PostgresHostPort",
     "Testdrive"}

\* Service.name
ServiceName ==
    [ Materialized         |-> "materialized",
      Postgres             |-> "postgres",
      MaterializedUnstable |-> "materialized",
      PostgresHostPort     |-> "postgres",
      Testdrive            |-> "testdrive" ]

\* Service.config as the object is constructed.
ServiceConfig ==
    [ Materialized |->
        [mzbuild |-> "materialized", ports |-> << <<"6875">> >>,
         propagate_uid_gid |-> TRUE],
      Postgres |->
        [image |-> <<"postgres", "latest">>, ports |-> << <<"5432">> >>,
         entrypoint |-> <<"docker-entrypoint.sh">>],
      MaterializedUnstable |->
        [image |-> <<"materialize/materialized", "unstable">>,
         ports |-> << <<"6875">> >>],
      PostgresHostPort |->
        [image |-> <<"postgres", "latest">>,
         ports |-> << <<"5432">>, <<"15432", "5432">> >>],
      Testdrive |->
        [mzbuild |-> "testdrive", propagate_uid_gid |-> FALSE] ]

ServiceNames == {ServiceName[o] : o \in ServiceObjects}

\* The argument lists of the override calls of the workflows.
OverrideArgs ==
    { <<"MaterializedUnstable">>, <<"PostgresHostPort">>, <<"Testdrive">>,
      <<"MaterializedUnstable", "PostgresHostPort">>,
      <<"MaterializedUnstable", "Postgres">> }

\* The names of the test cases of the workflows.
TestCaseNames == {"short", "long"}

\* The default volumes of Composition.__init__.
DefaultVolumes == {"mzdata", "pgdata", "mydata", "tmp", "secrets"}

\* ------------------------------------------------------------- yaml.dump

\* yaml.dump writes the keys of a mapping in sorted order.
ConfigKeyOrder ==
    <<"allow_host_ports", "command", "entrypoint", "environment", "image",
      "mzbuild", "ports", "propagate_uid_gid", "user", "volumes">>

ServiceNameOrder == <<"materialized", "postgres", "testdrive">>

VolumeOrder == <<"mydata", "mzdata", "pgdata", "secrets", "tmp">>

\* The mapping as the sequence of its (key, value) entries, in key order.
DumpMapping(mapping, order) ==
    LET present == SelectSeq(order, LAMBDA k : k \in DOMAIN mapping)
    IN  [i \in 1..Len(present) |-> <<present[i], mapping[present[i]]>>]

\* yaml.dump(self.compose): the document written to the file.
Dump(compose) ==
    LET services ==
            [n \in DOMAIN compose.services |->
                DumpMapping(compose.services[n], ConfigKeyOrder)]
    IN  << <<"services", DumpMapping(services, ServiceNameOrder)>>,
           <<"version", compose.version>>,
           <<"volumes", DumpMapping(compose.volumes, VolumeOrder)>> >>

\* ----------------------------------------------------------------- state

VARIABLES
    preserve_ports,   \* self.preserve_ports
    coverage,         \* self.repo.rd.coverage
    munge_services,   \* the munge_services argument of the constructor
    compose,          \* self.compose, the live specification
    alias,            \* per live service entry: the Service object whose
                      \* config dict the entry is, or "none" (a dict of its own)
    config,           \* per Service object: its config dict
    file,             \* the content of self.file
    stack,            \* the open scopes and the call in flight, innermost first
    exc,              \* the exception that is propagating, or NoExc
    test_results,     \* self.test_results, in insertion order
    clock,            \* time.time()
    calls,            \* the number of Composition calls made so far
    munge,            \* a call of _munge_services: its argument and outcome
    lookup,           \* a call of default_port: its argument and outcome
    dispatch,         \* the calls of workflow: loader state, bodies run
    poll,             \* a call of _wait_for_pg: its locals and outcome
    removal           \* a call of rm_volumes: its arguments and its command

\* The state of the calls that are followed on their own.
helpers == <<munge, lookup, dispatch, poll, removal>>

vars == <<preserve_ports, coverage, munge_services, compose, alias, config,
          file, stack, exc, test_results, clock, calls, helpers>>

\* An exception: its class, str(e), the call that raised it and, like its
\* traceback, the scopes it has left so far.
NoExc == [class |-> "none", msg |-> "", origin |-> "none", left |-> <<>>]

Raise(class, msg, origin) ==
    [class |-> class, msg |-> msg, origin |-> origin, left |-> <<>>]

Leaves(e, kind) == [e EXCEPT !.left = Append(@, kind)]

\* isinstance(e, Exception): SystemExit and KeyboardInterrupt derive from
\* BaseException only.
IsException(e) == e.class \notin {"none", "SystemExit", "KeyboardInterrupt"}

\* What the code of a scope's body may raise by itself: a failed bare assert
\* (str(e) is empty), sys.exit (argparse on a bad argument).
BodyExceptions ==
    { Raise("AssertionError", "", "body"),
      Raise("SystemExit", "2", "body") }

\* The frames of the stack.  old_compose is the local variable of override
\* and of up; entry_compose and entry_file are history: the live
\* specification and the file content when the call or scope began;
\* replaced is history too: the munged configs override installed.
OverrideFrame(old_compose, entry_compose, entry_file, replaced) ==
    [kind |-> "override", old_compose |-> old_compose,
     entry_compose |-> entry_compose, entry_file |-> entry_file,
     replaced |-> replaced]

PullFrame(old_compose, entry_compose, entry_file, replaced, names, i) ==
    [kind |-> "pull", old_compose |-> old_compose,
     entry_compose |-> entry_compose, entry_file |-> entry_file,
     replaced |-> replaced, names |-> names, i |-> i]

TestCaseFrame(name, start_time) ==
    [kind |-> "test_case", name |-> name, start_time |-> start_time,
     entry_compose |-> compose, entry_file |-> file]

UpFrame(persistent, old_compose, entry_compose, entry_file) ==
    [kind |-> "up", persistent |-> persistent, old_compose |-> old_compose,
     entry_compose |-> entry_compose, entry_file |-> entry_file]

\* then: the command run issues after its zero-scale up, or None.
InvokeFrame(command, service, args, check, then) ==
    [kind |-> "invoke", command |-> command, service |-> service,
     args |-> args, check |-> check, then |-> then]

Top == Head(stack)

Push(frame) == <<frame>> \o stack

Pop == Tail(stack)

\* The number of open scopes.
Depth == Len(SelectSeq(stack, LAMBDA f : f.kind \in {"override", "test_case"}))

\* Workflow code is running: nothing propagates and no call is in flight.
AtBody ==
    /\ exc = NoExc
    /\ stack # <<>> => Top.kind \in {"override", "test_case"}

\* A docker compose command is running (subprocess.run has not returned).
Invoking == stack # <<>> /\ Top.kind \in {"pull", "up", "invoke"}

NoAlias(spec) == [n \in DOMAIN spec.services |-> "none"]

\* The live specification after the Service objects' dicts changed in place:
\* an entry that is an object's dict shows the object's dict.
SeenThrough(spec, configs) ==
    [spec EXCEPT !.services =
        [n \in DOMAIN spec.services |->
            IF alias[n] # "none" THEN configs[alias[n]] ELSE spec.services[n]]]

\* --------------------------------------------------- Composition.__init__

LoadedServices ==
    [i \in 1..Len(Services) |->
        <<ServiceName[Services[i]], ServiceConfig[Services[i]]>>]

IndexOf(seq, x) == CHOOSE i \in 1..Len(seq) : seq[i] = x

\* The SERVICES of the mzcompose.py as the constructor leaves them: munged in
\* place when munge_services is set.
Loaded ==
    IF munge_services
    THEN MungeServices(LoadedServices, preserve_ports, coverage)
    ELSE [error |-> "none", services |-> LoadedServices]

\* The SERVICES object with the name.
LoadedObject(n) ==
    Services[CHOOSE i \in 1..Len(Services) : ServiceName[Services[i]] = n]

\* self.compose when the constructor returns.
LoadedCompose ==
    [version  |-> "3.7",
     services |-> [n \in {LoadedServices[i][1] : i \in 1..Len(Services)} |->
                      Loaded.services[IndexOf(Services, LoadedObject(n))][2]],
     volumes  |-> [v \in DefaultVolumes |-> None]]

\* The state when the constructor has returned: no service is specified more
\* than once and munging has not raised.
InitComposition ==
    /\ preserve_ports \in BOOLEAN
    /\ coverage \in BOOLEAN
    /\ munge_services \in BOOLEAN
    /\ \A i, j \in 1..Len(Services) :
           ServiceName[Services[i]] = ServiceName[Services[j]] => i = j
    /\ Loaded.error = "none"
    /\ config = [o \in ServiceObjects |->
                    IF InSeq(o, Services)
                    THEN Loaded.services[IndexOf(Services, o)][2]
                    ELSE ServiceConfig[o]]
    /\ compose = LoadedCompose
    /\ alias = [n \in DOMAIN compose.services |-> LoadedObject(n)]
    /\ file = Dump(compose)
    /\ stack = <<>>
    /\ exc = NoExc
    /\ test_results = <<>>
    /\ clock = 0
    /\ calls = 0

\* A helper call that is not being followed.
NotCalled == [state |-> "not called"]

\* The workflows of a constructed Composition, with no helper call followed.
Init ==
    /\ InitComposition
    /\ munge = NotCalled
    /\ lookup = NotCalled
    /\ dispatch = NotCalled
    /\ poll = NotCalled
    /\ removal = NotCalled

\* ------------------------------------------------- Composition.override

\* A copy that takes the services and the version only.
DeepCopyWithoutVolumes(spec) == [spec EXCEPT !.volumes = <<>>]

\* copy.deepcopy(self.compose)
DeepCopy(spec) == spec

\* The (name, config) pairs override hands to _munge_services.
OverridePairs(services) ==
    [i \in 1..Len(services) |->
        <<ServiceName[services[i]], config[services[i]]>>]

\* The Service objects' dicts after _munge_services worked on the pairs.
ConfigsAfter(services, pairs) ==
    [o \in ServiceObjects |->
        IF InSeq(o, services) THEN pairs[IndexOf(services, o)][2]
        ELSE config[o]]

\* The last service of the list with the name.
LastNamed(services, n) ==
    services[CHOOSE i \in 1..Len(services) :
        /\ ServiceName[services[i]] = n
        /\ \A j \in (i + 1)..Len(services) : ServiceName[services[j]] # n]

Named(services) == {ServiceName[services[i]] : i \in 1..Len(services)}

\* for service in services:
\*     self.compose["services"][service.name] = service.config
Install(spec, services, configs) ==
    [spec EXCEPT !.services =
        [n \in DOMAIN spec.services \cup Named(services) |->
            IF n \in Named(services) THEN configs[LastNamed(services, n)]
            ELSE spec.services[n]]]

\* History: the munged configs of the Service objects, by the name under
\* which each was installed.
Replaced(services, configs) ==
    [n \in Named(services) |-> configs[LastNamed(services, n)]]

InstallAlias(services) ==
    [n \in DOMAIN alias \cup Named(services) |->
        IF n \in Named(services) THEN LastNamed(services, n) ELSE alias[n]]

\* pull_if_variable: whether the service's image has a variable tag.
IsVariable(spec, name) ==
    /\ Has(spec.services[name], "image")
    /\ EndsWithVariableTag(spec.services[name]["image"])

\* The next service of the list, from index i on, that is pulled; 0 if none.
RECURSIVE NextPull(_, _, _)
NextPull(spec, names, i) ==
    IF i > Len(names) THEN 0
    ELSE IF IsVariable(spec, names[i]) THEN i
    ELSE NextPull(spec, names, i + 1)

\* The frame after the live specification was written: the first pull of
\* pull_if_variable, or the body of the scope when nothing is pulled.
AfterWrite(old_compose, replaced, names, i) ==
    IF NextPull(compose', names, i) = 0
    THEN OverrideFrame(old_compose, compose, file, replaced)
    ELSE PullFrame(old_compose, compose, file, replaced, names,
                   NextPull(compose', names, i))

\* override(*services) up to its first docker compose command, or to the
\* yield when it issues none.  acquired: whether deps.acquire() succeeds.
OverrideEnter(services, acquired) ==
    /\ AtBody
    /\ calls < MaxCalls
    /\ calls' = calls + 1
    /\ Depth < MaxDepth
    /\ LET old_compose == DeepCopy(compose)
           m == MungeServices(OverridePairs(services), preserve_ports, coverage)
           configs == ConfigsAfter(services, m.services)
           seen == SeenThrough(compose, configs)
           names == [i \in 1..Len(services) |-> ServiceName[services[i]]]
       IN  /\ config' = configs
           /\ IF m.error # "none"
              THEN /\ compose' = seen
                   /\ exc' = Raise("UIError", m.error, "munge")
                   /\ UNCHANGED <<alias, file, stack>>
              ELSE /\ compose' = Install(seen, services, configs)
                   /\ alias' = InstallAlias(services)
                   /\ IF ~acquired
                      THEN /\ exc' = Raise("Exception", "acquire failed",
                                           "acquire")
                           /\ UNCHANGED <<file, stack>>
                      ELSE /\ file' = Dump(compose')
                           /\ stack' = Push(AfterWrite(old_compose,
                                  Replaced(services, configs), names, 1))
                           /\ UNCHANGED exc
    /\ UNCHANGED helpers
    /\ UNCHANGED <<preserve_ports, coverage, munge_services, test_results,
                   clock>>

\* self.invoke("pull", service) returns: the next pull, or the yield.
\* A failed pull raises out of override, before its try block.
PullReturns(ok) ==
    /\ stack # <<>> /\ Top.kind = "pull"
    /\ IF ok
       THEN /\ stack' = <<IF NextPull(compose, Top.names, Top.i + 1) = 0
                          THEN OverrideFrame(Top.old_compose,
                                             Top.entry_compose, Top.entry_file,
                                             Top.replaced)
                          ELSE [Top EXCEPT !.i =
                                   NextPull(compose, Top.names, Top.i + 1)]>>
                         \o Pop
            /\ UNCHANGED exc
       ELSE /\ stack' = Pop
            /\ exc' = Raise("UIError", "running docker compose failed", "pull")
    /\ UNCHANGED helpers
    /\ UNCHANGED <<preserve_ports, coverage, munge_services, compose, alias,
                   config, file, test_results, clock, calls>>

\* A finally block that does not put the old composition back.
RestoreSkipped(old_compose) == compose

\* One saved composition for all scopes: the outermost scope's.
RestoreOutermost(old_compose) ==
    LET scopes == SelectSeq(stack, LAMBDA f : f.kind = "override")
    IN  scopes[Len(scopes)].old_compose

\* self.compose = old_compose
Restore(old_compose) == old_compose

\* self._write_compose()
WriteCompose(spec) == Dump(spec)

\* The finally block of override, on the normal end of the body.
OverrideExit ==
    /\ exc = NoExc
    /\ stack # <<>> /\ Top.kind = "override"
    /\ compose' = Restore(Top.old_compose)
    /\ alias' = NoAlias(compose')
    /\ file' = WriteCompose(compose')
    /\ stack' = Pop
    /\ UNCHANGED helpers
    /\ UNCHANGED <<preserve_ports, coverage, munge_services, config, exc,
                   test_results, clock, calls>>

\* The finally block of override, when an exception leaves the body.
OverrideUnwind ==
    /\ exc # NoExc
    /\ stack # <<>> /\ Top.kind = "override"
    /\ compose' = Restore(Top.old_compose)
    /\ alias' = NoAlias(compose')
    /\ file' = WriteCompose(compose')
    /\ stack' = Pop
    /\ exc' = Leaves(exc, "override")
    /\ UNCHANGED helpers
    /\ UNCHANGED <<preserve_ports, coverage, munge_services, config,
                   test_results, clock, calls>>

\* ------------------------------------------------ Composition.test_case

\* No check of the name.
RecordedNever(name) == FALSE

\* name in self.test_results
Recorded(name) == \E i \in 1..Len(test_results) : test_results[i].name = name

\* self.test_results[name] = result, on an OrderedDict: a new key goes to
\* the end, an existing key keeps its place.
SetResult(results, name, result) ==
    LET entry == [name |-> name, duration |-> result.duration,
                  error |-> result.error]
    IN  IF \E i \in 1..Len(results) : results[i].name = name
        THEN [i \in 1..Len(results) |->
                 IF results[i].name = name THEN entry ELSE results[i]]
        ELSE Append(results, entry)

\* elapsed = time.time() - start_time
Elapsed(start_time) == clock - start_time

\* The error is left at its initial None.
ErrorOfUnset(e) == None

\* error = str(e)
ErrorOf(e) == Some(e.msg)

\* except UIError as e
CatchesUIError(e) == e.class = "UIError"

\* except Exception as e
Catches(e) == IsException(e)

\* Composition.TestResult(elapsed, error)
TestResult(duration, error) == [duration |-> duration, error |-> error]

\* with c.test_case(name): up to the yield.
TestCaseEnter(name) ==
    /\ AtBody
    /\ calls < MaxCalls
    /\ calls' = calls + 1
    /\ IF Recorded(name)
       THEN /\ exc' = Raise("UIError", "test case executed twice", "test_case")
            /\ UNCHANGED stack
       ELSE /\ Depth < MaxDepth
            /\ stack' = Push(TestCaseFrame(name, clock))
            /\ UNCHANGED exc
    /\ UNCHANGED helpers
    /\ UNCHANGED <<preserve_ports, coverage, munge_services, compose, alias,
                   config, file, test_results, clock>>

\* The body ends normally.
TestCaseExit ==
    /\ exc = NoExc
    /\ stack # <<>> /\ Top.kind = "test_case"
    /\ test_results' = SetResult(test_results, Top.name,
                                 TestResult(Elapsed(Top.start_time), None))
    /\ stack' = Pop
    /\ UNCHANGED helpers
    /\ UNCHANGED <<preserve_ports, coverage, munge_services, compose, alias,
                   config, file, exc, clock, calls>>

\* An exception leaves the body.
TestCaseUnwind ==
    /\ exc # NoExc
    /\ stack # <<>> /\ Top.kind = "test_case"
    /\ IF Catches(exc)
       THEN /\ test_results' =
                   SetResult(test_results, Top.name,
                             TestResult(Elapsed(Top.start_time), ErrorOf(exc)))
            /\ exc' = NoExc
       ELSE /\ exc' = Leaves(exc, "test_case")
            /\ UNCHANGED test_results
    /\ stack' = Pop
    /\ UNCHANGED helpers
    /\ UNCHANGED <<preserve_ports, coverage, munge_services, compose, alias,
                   config, file, clock, calls>>

\* ---------------------------------------------------------- Composition.up

\* service["entrypoint"] = ["sleep", "infinity"]; service["command"] = []
Persistent(service) ==
    Put(Put(service, "entrypoint", <<"sleep", "infinity">>), "command", <<>>)

\* self.compose = old_compose, in up
UpRestore(old_compose) == old_compose

\* up(*services, persistent=...) up to the docker compose command.
Up(persistent) ==
    /\ AtBody
    /\ calls < MaxCalls
    /\ calls' = calls + 1
    /\ IF persistent
       THEN /\ compose' = [compose EXCEPT !.services =
                   [n \in DOMAIN compose.services |->
                       Persistent(compose.services[n])]]
            /\ config' = [o \in ServiceObjects |->
                   IF \E n \in DOMAIN alias : alias[n] = o
                   THEN Persistent(config[o]) ELSE config[o]]
            /\ file' = WriteCompose(compose')
            /\ stack' = Push(UpFrame(TRUE, DeepCopy(compose), compose, file))
       ELSE /\ stack' = Push(UpFrame(FALSE, None, compose, file))
            /\ UNCHANGED <<compose, config, file>>
    /\ UNCHANGED helpers
    /\ UNCHANGED <<preserve_ports, coverage, munge_services, alias, exc,
                   test_results, clock>>

\* self.invoke("up", ...) returns or raises.
UpReturns(ok) ==
    /\ stack # <<>> /\ Top.kind = "up"
    /\ IF ok
       THEN /\ IF Top.persistent
               THEN /\ compose' = UpRestore(Top.old_compose)
                    /\ alias' = NoAlias(compose')
                    /\ file' = WriteCompose(compose')
               ELSE UNCHANGED <<compose, alias, file>>
            /\ UNCHANGED exc
       ELSE /\ exc' = Raise("UIError", "running docker compose failed", "up")
            /\ UNCHANGED <<compose, alias, file>>
    /\ stack' = Pop
    /\ UNCHANGED helpers
    /\ UNCHANGED <<preserve_ports, coverage, munge_services, config,
                   test_results, clock, calls>>

\* -------------------------------------------- Composition.run and .exec

\* run without its zero-scale up: the run command is the first command.
RunWithoutUp(service, check) ==
    /\ AtBody
    /\ service \in DOMAIN compose.services
    /\ calls < MaxCalls
    /\ calls' = calls + 1
    /\ stack' = Push(InvokeFrame("run", service, <<>>, check, None))
    /\ UNCHANGED helpers
    /\ UNCHANGED <<preserve_ports, coverage, munge_services, compose, alias,
                   config, file, exc, test_results, clock>>

\* run(service, *args, check=...) up to its first command, the zero-scale
\* up, for a service of the composition.
Run(service, check) ==
    /\ AtBody
    /\ service \in DOMAIN compose.services
    /\ calls < MaxCalls
    /\ calls' = calls + 1
    /\ stack' = Push(InvokeFrame("up", service,
                        <<"--detach", "--scale", service, "0">>, TRUE,
                        Some(InvokeFrame("run", service, <<>>, check, None))))
    /\ UNCHANGED helpers
    /\ UNCHANGED <<preserve_ports, coverage, munge_services, compose, alias,
                   config, file, exc, test_results, clock>>

\* exec(service, *args, check=...) up to its command, for a service of the
\* composition; its entrypoint is read from the live specification.
Exec(service, check) ==
    /\ AtBody
    /\ calls < MaxCalls
    /\ calls' = calls + 1
    /\ service \in DOMAIN compose.services
    /\ stack' = Push(InvokeFrame("exec", service,
            Get(compose.services[service], "entrypoint", <<>>), check, None))
    /\ UNCHANGED exc
    /\ UNCHANGED helpers
    /\ UNCHANGED <<preserve_ports, coverage, munge_services, compose, alias,
                   config, file, test_results, clock>>

\* subprocess.run returns: invoke raises UIError on a non-zero exit status
\* unless check is false.
InvokeReturns(ok) ==
    /\ stack # <<>> /\ Top.kind = "invoke"
    /\ IF ok \/ ~Top.check
       THEN /\ stack' = (IF Top.then = None THEN <<>> ELSE <<Top.then[1]>>)
                        \o Pop
            /\ UNCHANGED exc
       ELSE /\ stack' = Pop
            /\ exc' = Raise("UIError", "running docker compose failed",
                            "invoke")
    /\ UNCHANGED helpers
    /\ UNCHANGED <<preserve_ports, coverage, munge_services, compose, alias,
                   config, file, test_results, clock, calls>>

\* ------------------------------------------------------- the workflow code

\* The code of a scope's body raises.
BodyRaises(e) ==
    /\ AtBody
    /\ stack # <<>>
    /\ exc' = e
    /\ UNCHANGED helpers
    /\ UNCHANGED <<preserve_ports, coverage, munge_services, compose, alias,
                   config, file, stack, test_results, clock, calls>>

\* The exception leaves the outermost scope: the caller has it.
Propagates ==
    /\ exc # NoExc
    /\ stack = <<>>
    /\ exc' = NoExc
    /\ UNCHANGED helpers
    /\ UNCHANGED <<preserve_ports, coverage, munge_services, compose, alias,
                   config, file, stack, test_results, clock, calls>>

\* Time passes.  Only test_case reads the clock, so only the time that passes
\* while a test case is open is followed.
Tick ==
    /\ clock < MaxClock
    /\ \E i \in 1..Len(stack) : stack[i].kind = "test_case"
    /\ clock' = clock + 1
    /\ UNCHANGED helpers
    /\ UNCHANGED <<preserve_ports, coverage, munge_services, compose, alias,
                   config, file, stack, exc, test_results, calls>>

Next ==
    \/ \E services \in OverrideArgs, acquired \in BOOLEAN :
           OverrideEnter(services, acquired)
    \/ \E ok \in BOOLEAN : PullReturns(ok)
    \/ OverrideExit
    \/ OverrideUnwind
    \/ \E name \in TestCaseNames : TestCaseEnter(name)
    \/ TestCaseExit
    \/ TestCaseUnwind
    \/ \E persistent \in BOOLEAN : Up(persistent)
    \/ \E ok \in BOOLEAN : UpReturns(ok)
    \/ \E service \in ServiceNames, check \in BOOLEAN : Run(service, check)
    \/ \E service \in ServiceNames, check \in BOOLEAN : Exec(service, check)
    \/ \E ok \in BOOLEAN : InvokeReturns(ok)
    \/ \E e \in BodyExceptions : BodyRaises(e)
    \/ Propagates
    \/ Tick

Spec == Init /\ [][Next]_vars

\* ===================================================== the helper calls
\*
\* _munge_services, default_port, workflow and _wait_for_pg are followed on
\* their own, each in a specification of its own over a constructed
\* Composition whose workflows are not running.

\* The state of the Composition and of its workflows.
composition ==
    <<preserve_ports, coverage, munge_services, compose, alias, config,
      file, stack, exc, test_results, clock, calls>>

\* ------------------------------------------------------ _munge_services

\* The number of times _munge_services is applied to one list of services.
MaxMunges == 2

\* The dicts that have the key with one of the values, and the empty dict.
Optional(key, values) == {<<>>} \cup {[k \in {key} |-> v] : v \in values}

\* Port entries: "6875" and "15432:5432".
PlainPort == <<"6875">>

HostBoundPort == <<"15432", "5432">>

\* Environment entries that are there before munging.
StaleProfileA == <<"LLVM_PROFILE_FILE", <<"/tmp/a.profraw">> >>

StaleProfileB == <<"LLVM_PROFILE_FILE", <<"/tmp/b.profraw">> >>

OtherEntry == <<"MZ_DEV", <<"1">> >>

\* The service configs _munge_services is applied to: a build reference
\* (known to the repository or not) or an image, and any of the keys the
\* function looks at.
MungeConfigs ==
    { build @@ uidgid @@ user @@ ports @@ allow @@ environment @@ volumes :
        build \in {[image |-> <<"postgres", "13">>]}
                  \cup {[mzbuild |-> b] : b \in {"materialized", "nonexistent"}},
        uidgid \in Optional("propagate_uid_gid", BOOLEAN),
        user \in Optional("user", {<<0, 0>>}),
        ports \in Optional("ports", {<<>>, <<PlainPort>>, <<HostBoundPort>>,
                                     <<PlainPort, HostBoundPort>>}),
        allow \in Optional("allow_host_ports", BOOLEAN),
        environment \in Optional("environment",
                                 {<<OtherEntry>>, <<StaleProfileA>>,
                                  <<OtherEntry, StaleProfileA, StaleProfileB>>}),
        volumes \in Optional("volumes", {<<CoverageVolume>>,
                                         <<<<"mzdata", "/share/mzdata">>>>}) }

\* The lists of (name, config) pairs: one service with any of the configs,
\* or two of the Service objects.
MungeArgs ==
    { << <<"materialized", c>> >> : c \in MungeConfigs }
    \cup { << <<ServiceName[a], ServiceConfig[a]>>,
              <<ServiceName[b], ServiceConfig[b]>> >> :
           a \in ServiceObjects, b \in ServiceObjects }

\* The list is about to be passed to _munge_services for the first time.
InitMunge ==
    /\ InitComposition
    /\ \E services \in MungeArgs :
           munge = [state |-> "not called", services |-> services,
                    before |-> services, error |-> "none", calls |-> 0]
    /\ lookup = NotCalled
    /\ dispatch = NotCalled
    /\ poll = NotCalled
    /\ removal = NotCalled

\* self._munge_services(services): the configs of the list are changed in
\* place; before is history, the configs as they were passed.
Munged ==
    LET m == MungeServices(munge.services, preserve_ports, coverage)
    IN  [state |-> IF m.error = "none" THEN "returned" ELSE "raised",
         services |-> m.services, before |-> munge.services,
         error |-> m.error, calls |-> munge.calls + 1]

MungeCall ==
    /\ munge.state = "not called"
    /\ munge' = Munged
    /\ UNCHANGED <<composition, lookup, dispatch, poll, removal>>

\* The list a call has munged is passed again (override munges the configs
\* of Service objects each time they are passed).
MungeAgain ==
    /\ munge.state = "returned"
    /\ munge.calls < MaxMunges
    /\ munge' = Munged
    /\ UNCHANGED <<composition, lookup, dispatch, poll, removal>>

NextMunge ==
    \/ MungeCall
    \/ MungeAgain

SpecMunge == InitMunge /\ [][NextMunge]_vars

\* ----------------------------------------------- default_port and port

\* The SERVICES lists of the mzcompose.py files a Composition is constructed
\* from: one or two Service objects, no name twice.
ServicesLists ==
    {<<a>> : a \in ServiceObjects}
    \cup {s \in {<<a, b>> : a \in ServiceObjects, b \in ServiceObjects} :
             ServiceName[s[1]] # ServiceName[s[2]]}

PairsOf(objects) ==
    [i \in 1..Len(objects) |->
        <<ServiceName[objects[i]], ServiceConfig[objects[i]]>>]

\* The services as the constructor leaves them (lines 144-146).
ConstructedWith(objects) ==
    IF munge_services
    THEN MungeServices(PairsOf(objects), preserve_ports, coverage)
    ELSE [error |-> "none", services |-> PairsOf(objects)]

\* What docker compose port prints: nothing, an empty line, or the address
\* and the host port; as the parts between the colons.
Stdouts ==
    { <<>>, <<"\n">>, <<"0.0.0.0", "49153\n">>, <<"0.0.0.0", "49154\n">> }

\* proc.stdout.strip()
Strip(stdout) == IF stdout = <<"\n">> THEN <<>> ELSE stdout

\* int(text) for the texts of Stdouts; int ignores the newline.
IntOf(text) ==
    CASE text = "49153\n" -> 49153
      [] text = "49154\n" -> 49154

\* A Composition is constructed from one of the lists, and default_port is
\* about to be called; issued lists the docker compose commands of the call.
InitLookup ==
    /\ preserve_ports \in BOOLEAN
    /\ coverage \in BOOLEAN
    /\ munge_services \in BOOLEAN
    /\ \E objects \in ServicesLists :
           LET made == ConstructedWith(objects)
               names == {ServiceName[objects[i]] : i \in 1..Len(objects)}
               At(n) == CHOOSE i \in 1..Len(objects) :
                            ServiceName[objects[i]] = n
           IN  /\ made.error = "none"
               /\ compose = [version  |-> "3.7",
                             services |-> [n \in names |->
                                              made.services[At(n)][2]],
                             volumes  |-> [v \in DefaultVolumes |-> None]]
               /\ alias = [n \in names |-> objects[At(n)]]
               /\ config = [o \in ServiceObjects |->
                               IF InSeq(o, objects)
                               THEN made.services[IndexOf(objects, o)][2]
                               ELSE ServiceConfig[o]]
    /\ file = Dump(compose)
    /\ stack = <<>>
    /\ exc = NoExc
    /\ test_results = <<>>
    /\ clock = 0
    /\ calls = 0
    /\ lookup = [state |-> "not called", service |-> "none", issued |-> <<>>,
                 stdout |-> None, returned |-> None]
    /\ munge = NotCalled
    /\ dispatch = NotCalled
    /\ poll = NotCalled
    /\ removal = NotCalled

\* default_port(service) up to the command of port, for a service of the
\* composition.
DefaultPort(service) ==
    /\ lookup.state = "not called"
    /\ service \in DOMAIN compose.services
    /\ LET c == compose.services[service]
       IN  IF ~Has(c, "ports")
           THEN /\ exc' = Raise("KeyError", "ports", "default_port")
                /\ lookup' = [lookup EXCEPT !.state = "raised",
                                            !.service = service]
                /\ UNCHANGED stack
           ELSE IF c["ports"] = <<>>
           THEN /\ exc' = Raise("UIError", "does not expose any ports",
                                "default_port")
                /\ lookup' = [lookup EXCEPT !.state = "raised",
                                            !.service = service]
                /\ UNCHANGED stack
           ELSE /\ stack' = Push(InvokeFrame("port", service,
                                 <<PrivatePort(c["ports"][1])>>, TRUE, None))
                /\ lookup' = [lookup EXCEPT
                       !.state = "invoking", !.service = service,
                       !.issued = << <<"port", service,
                                       PrivatePort(c["ports"][1])>> >>]
                /\ UNCHANGED exc
    /\ UNCHANGED <<preserve_ports, coverage, munge_services, compose, alias,
                   config, file, test_results, clock, calls>>
    /\ UNCHANGED <<munge, dispatch, poll, removal>>

\* The command of port returns: invoke raises on a non-zero exit status,
\* port raises when nothing was printed, else the text after the first colon
\* is the port.
PortReturns(ok, stdout) ==
    /\ stack # <<>> /\ Top.kind = "invoke" /\ Top.command = "port"
    /\ stack' = Pop
    /\ IF ~ok
       THEN /\ exc' = Raise("UIError", "running docker compose failed",
                            "invoke")
            /\ lookup' = [lookup EXCEPT !.state = "raised"]
       ELSE IF Strip(stdout) = <<>>
       THEN /\ exc' = Raise("UIError", "is not exposing port", "port")
            /\ lookup' = [lookup EXCEPT !.state = "raised",
                                        !.stdout = Some(stdout)]
       ELSE /\ lookup' = [lookup EXCEPT !.state = "returned",
                                        !.stdout = Some(stdout),
                                        !.returned = Some(IntOf(stdout[2]))]
            /\ UNCHANGED exc
    /\ UNCHANGED <<preserve_ports, coverage, munge_services, compose, alias,
                   config, file, test_results, clock, calls>>
    /\ UNCHANGED <<munge, dispatch, poll, removal>>

NextLookup ==
    \/ \E service \in ServiceNames : DefaultPort(service)
    \/ \E ok \in BOOLEAN, stdout \in Stdouts : PortReturns(ok, stdout)

SpecLookup == InitLookup /\ [][NextLookup]_vars

\* ------------------------------------------------- Composition.workflow

\* The number of workflow calls of a run, and the deepest nesting of
\* workflows that call workflows.
MaxWorkflows == 3

MaxNesting == 2

\* self.workflows: the workflow functions of the mzcompose.py, each with
\* the number of its parameters (c, or c and parser) and the options its
\* body adds to the parser before it parses.
Workflows ==
    [ default |-> [parameters |-> 1, options |-> {}],
      test    |-> [parameters |-> 2, options |-> {"--seed"}] ]

\* The names workflow is called with: those of self.workflows and one more.
WorkflowNames == {"default", "test", "missing"}

\* The arguments workflow is called with.
WorkflowArgs == {<<>>, <<"--seed">>, <<"--bogus">>}

\* parser.parse_args(): argparse exits with status 2 on an argument that
\* is none of the parser's options.
ParseArgs(options, args) ==
    IF \A i \in 1..Len(args) : args[i] \in options
    THEN NoExc
    ELSE Raise("SystemExit", "2", "parse_args")

\* A closure that always holds: every workflow is handed the parser.
TakesParserAlways(name) == TRUE

\* len(inspect.signature(func).parameters) > 1
TakesParser(name) == Workflows[name].parameters > 1

\* The body of a workflow that is running; parsed: parse_args has run on
\* the parser of the call.
WorkflowFrame(name, args, parsed) ==
    [kind |-> "workflow", name |-> name, args |-> args, parsed |-> parsed]

\* loader.composition_path is None and no workflow has been called; log
\* lists the calls of workflow and whether each invoked the function.
InitDispatch ==
    /\ InitComposition
    /\ dispatch = [composition_path |-> None, log |-> <<>>]
    /\ munge = NotCalled
    /\ lookup = NotCalled
    /\ poll = NotCalled
    /\ removal = NotCalled

Logged(name, args, invoked) ==
    Append(dispatch.log, [name |-> name, args |-> args, invoked |-> invoked])

\* workflow(name, *args), called by the command line or by the body of a
\* workflow, up to the invocation of the function.
Workflow(name, args) ==
    /\ exc = NoExc
    /\ Len(dispatch.log) < MaxWorkflows
    /\ Len(stack) < MaxNesting
    /\ IF name \notin DOMAIN Workflows
       THEN /\ exc' = Raise("KeyError", name, "workflow")
            /\ dispatch' = [dispatch EXCEPT !.log = Logged(name, args, FALSE)]
            /\ UNCHANGED stack
       ELSE IF TakesParser(name)
       THEN /\ stack' = Push(WorkflowFrame(name, args, FALSE))
            /\ dispatch' = [composition_path |-> Some("path"),
                            log |-> Logged(name, args, TRUE)]
            /\ UNCHANGED exc
       ELSE IF ParseArgs({}, args) = NoExc
       THEN /\ stack' = Push(WorkflowFrame(name, args, TRUE))
            /\ dispatch' = [composition_path |-> Some("path"),
                            log |-> Logged(name, args, TRUE)]
            /\ UNCHANGED exc
       ELSE /\ exc' = ParseArgs({}, args)
            /\ dispatch' = [composition_path |-> None,
                            log |-> Logged(name, args, FALSE)]
            /\ UNCHANGED stack
    /\ UNCHANGED <<preserve_ports, coverage, munge_services, compose, alias,
                   config, file, test_results, clock, calls>>
    /\ UNCHANGED <<munge, lookup, poll, removal>>

\* The body of a workflow that was handed the parser adds its options and
\* calls parser.parse_args().
BodyParses ==
    /\ exc = NoExc
    /\ stack # <<>> /\ Top.kind = "workflow" /\ ~Top.parsed
    /\ exc' = ParseArgs(Workflows[Top.name].options, Top.args)
    /\ stack' = IF exc' = NoExc
                THEN <<[Top EXCEPT !.parsed = TRUE]>> \o Pop
                ELSE stack
    /\ UNCHANGED <<preserve_ports, coverage, munge_services, compose, alias,
                   config, file, test_results, clock, calls>>
    /\ UNCHANGED <<munge, lookup, dispatch, poll, removal>>

\* The body of a workflow raises.
WorkflowRaises(e) ==
    /\ exc = NoExc
    /\ stack # <<>> /\ Top.kind = "workflow"
    /\ exc' = e
    /\ UNCHANGED <<preserve_ports, coverage, munge_services, compose, alias,
                   config, file, stack, test_results, clock, calls>>
    /\ UNCHANGED <<munge, lookup, dispatch, poll, removal>>

\* The function returns or raises: the finally block of workflow.
WorkflowExit ==
    /\ stack # <<>> /\ Top.kind = "workflow"
    /\ stack' = Pop
    /\ dispatch' = [dispatch EXCEPT !.composition_path = None]
    /\ exc' = IF exc = NoExc THEN NoExc ELSE Leaves(exc, "workflow")
    /\ UNCHANGED <<preserve_ports, coverage, munge_services, compose, alias,
                   config, file, test_results, clock, calls>>
    /\ UNCHANGED <<munge, lookup, poll, removal>>

NextDispatch ==
    \/ \E name \in WorkflowNames, args \in WorkflowArgs : Workflow(name, args)
    \/ BodyParses
    \/ \E e \in BodyExceptions : WorkflowRaises(e)
    \/ WorkflowExit

SpecDispatch == InitDispatch /\ [][NextDispatch]_vars

\* ----------------------------------------------------------- _wait_for_pg

\* Time is counted in polling intervals (tick=0.5).  The longest timeout,
\* and the longest time one attempt takes, that are explored.
MaxTimeout == 3

MaxAttemptTicks == 2

\* ui.timeout_loop(timeout_secs, tick): the loop goes on until the timeout
\* has elapsed.
LoopGoesOn(now, timeout) == now < timeout

\* ui.timeout_loop: the next iteration begins one polling interval after
\* this one began, or when the attempt is over if that is later.
NextIteration(now, took) == now + (IF took > 1 THEN took ELSE 1)

\* The rows a query returns.
Rows == {<<"1">>, <<"2">>}

\* The expected argument: the string "any", or rows.
AnyResult == [any |-> TRUE, rows |-> <<>>]

Expected(rows) == [any |-> FALSE, rows |-> rows]

Expectations == {AnyResult, Expected(<<"1">>)}

\* What one attempt meets: connect or execute raises (raised), or the
\* cursor has a rowcount and fetchall returns rows or raises.
Outcomes ==
    {[raised |-> TRUE, rowcount |-> -1, rows |-> None]}
    \cup [raised : {FALSE}, rowcount : {-1, 1},
          rows : {None} \cup {Some(r) : r \in Rows}]

\* The body of the try block without the two tests of expected == "any":
\* the rows are always fetched and compared.
AttemptGivesCompared(expected, outcome) ==
    IF outcome.raised THEN "raises"
    ELSE IF outcome.rows = None THEN "raises"
    ELSE IF outcome.rows[1] = expected.rows THEN "returns"
    ELSE "differs"

\* The body of the try block: "returns" (success), "raises" (the except
\* block runs) or "differs" (the rows are reported with say).
AttemptGives(expected, outcome) ==
    IF outcome.raised THEN "raises"
    ELSE IF expected = AnyResult /\ outcome.rowcount = -1 THEN "returns"
    ELSE IF outcome.rows = None THEN "raises"
    ELSE IF expected = AnyResult THEN "returns"
    ELSE IF outcome.rows[1] = expected.rows THEN "returns"
    ELSE "differs"

\* The attempt remembers every failure, also rows that differ.
RememberedAlways(error, gives, e) ==
    IF gives \in {"raises", "differs"} THEN Some(e) ELSE error

\* error after an attempt: only the except block assigns it.
Remembered(error, gives, e) == IF gives = "raises" THEN Some(e) ELSE error

\* _wait_for_pg is called: error = None and the loop is about to begin.
\* history lists what the attempts met; the exception of attempt k is k.
InitPoll ==
    /\ InitComposition
    /\ ~preserve_ports /\ ~coverage /\ munge_services
    /\ \E expected \in Expectations, timeout \in 1..MaxTimeout :
           poll = [state |-> "polling", expected |-> expected,
                   timeout |-> timeout, now |-> 0, error |-> None,
                   history |-> <<>>, message |-> None]
    /\ munge = NotCalled
    /\ lookup = NotCalled
    /\ dispatch = NotCalled
    /\ removal = NotCalled

\* One iteration of the loop: the attempt, and the wait for the next one.
Attempt(outcome, took) ==
    /\ poll.state = "polling"
    /\ LoopGoesOn(poll.now, poll.timeout)
    /\ LET gives == AttemptGives(poll.expected, outcome)
           k == Len(poll.history) + 1
       IN  poll' = [poll EXCEPT
               !.state = IF gives = "returns" THEN "returned" ELSE "polling",
               !.error = Remembered(poll.error, gives, k),
               !.history = Append(@, outcome),
               !.now = IF gives = "returns"
                       THEN poll.now + took
                       ELSE NextIteration(poll.now, took)]
    /\ UNCHANGED <<composition, munge, lookup, dispatch, removal>>

\* The loop is over and nothing is raised: the call stays where it is.
TimesOutWithoutRaise ==
    /\ poll.state = "polling"
    /\ ~LoopGoesOn(poll.now, poll.timeout)
    /\ UNCHANGED vars

\* The loop is over: raise UIError(f"never got correct result ...: {error}").
TimesOut ==
    /\ poll.state = "polling"
    /\ ~LoopGoesOn(poll.now, poll.timeout)
    /\ poll' = [poll EXCEPT !.state = "raised", !.message = Some(poll.error)]
    /\ UNCHANGED <<composition, munge, lookup, dispatch, removal>>

NextPoll ==
    \/ \E outcome \in Outcomes, took \in 0..MaxAttemptTicks :
           Attempt(outcome, took)
    \/ TimesOut

\* The interpreter goes on running the function: an attempt ends (the
\* connection is opened with timeout=1), and the statement after the loop
\* is executed once the loop is over.
FairSpecPoll == InitPoll /\ [][NextPoll]_vars /\ WF_vars(NextPoll)

SpecPoll == InitPoll /\ [][NextPoll]_vars

\* ------------------------------------------------ Composition.rm_volumes

\* The most volumes one call of rm_volumes names.
MaxVolumes == 2

\* self.name: the names of the compositions.
CompositionNames == {"demo", "cluster"}

\* The volumes a workflow names.
VolumeNames == {"pgdata", "mzdata", "tmp"}

\* The volumes argument of a call.
VolumeArgs == UNION {[1..n -> VolumeNames] : n \in 0..MaxVolumes}

\* The volume name without the name of the composition.
VolumeOfBare(name, v) == <<v>>

\* f"{self.name}_{v}", as its parts.
VolumeOf(name, v) == <<name, "_", v>>

\* ["docker", "volume", "rm", *(["--force"] if force else []), *volumes]:
\* the words of the command, each as its parts.
RmCommand(name, volumes, force) ==
    << <<"docker">>, <<"volume">>, <<"rm">> >>
    \o (IF force THEN << <<"--force">> >> ELSE <<>>)
    \o [i \in 1..Len(volumes) |-> VolumeOf(name, volumes[i])]

\* A Composition of one of the names; rm_volumes has not been called.
\* commands lists the commands handed to spawn.runv.
InitVolumes ==
    /\ InitComposition
    /\ \E name \in CompositionNames :
           removal = [state |-> "not called", name |-> name,
                      volumes |-> <<>>, force |-> FALSE, commands |-> <<>>]
    /\ munge = NotCalled
    /\ lookup = NotCalled
    /\ dispatch = NotCalled
    /\ poll = NotCalled

\* rm_volumes(*volumes, force=force); spawn.runv raises when docker exits
\* with a non-zero status.
RmVolumes(volumes, force, ok) ==
    /\ removal.state = "not called"
    /\ removal' = [state |-> IF ok THEN "returned" ELSE "raised",
                   name |-> removal.name, volumes |-> volumes,
                   force |-> force,
                   commands |-> <<RmCommand(removal.name, volumes, force)>>]
    /\ UNCHANGED <<composition, munge, lookup, dispatch, poll>>

NextVolumes ==
    \E volumes \in VolumeArgs, force \in BOOLEAN, ok \in BOOLEAN :
        RmVolumes(volumes, force, ok)

SpecVolumes == InitVolumes /\ [][NextVolumes]_vars

\* ------------------------------------------------------------ the claims

\* Some open scope or call is left by the step.
Leaving(kind) == stack # <<>> /\ Top.kind = kind /\ stack' = Pop

\* C1: when the body of an override scope raises, the exception leaves the
\* scope with the live specification equal to the one from immediately before
\* override was entered, and the file holds the dump of that specification;
\* the exception goes on.
OverrideAtomicOnBodyFailure ==
    [][ (exc # NoExc /\ Leaving("override")) =>
            /\ compose' = Top.entry_compose
            /\ file' = Dump(Top.entry_compose)
            /\ exc' # NoExc ]_vars

\* C1 happens: a persistent up failed in the body of an override, its
\* exception has left the override scope, and the specification and the file
\* are those of the load again.
OverrideBodyFailureRestored ==
    /\ exc.origin = "up"
    /\ exc.left = <<"override">>
    /\ stack = <<>>
    /\ compose = LoadedCompose
    /\ file = Dump(LoadedCompose)

\* C2: every override scope that is left, normally or by an exception, at any
\* nesting depth, leaves the live specification and the file as they were just
\* before that scope was entered, and leaves the enclosing scopes open with
\* their saved compositions untouched.
NestedOverridesRestoreInReverse ==
    [][ Leaving("override") =>
            /\ compose' = Top.entry_compose
            /\ file' = Dump(Top.entry_compose)
            /\ \A i \in 1..Len(stack') :
                   stack'[i].kind = "override" =>
                       stack'[i].old_compose = stack'[i].entry_compose ]_vars

\* C2 happens: an exception has left an inner override scope B, the outer
\* scope A is open, and the live specification is the one A installed, which
\* differs from the one A will restore.
InnerLeftOuterInstalled ==
    /\ exc.left = <<"override">>
    /\ stack # <<>> /\ Top.kind = "override"
    /\ compose # Top.entry_compose
    /\ Get(compose.services["materialized"], "image", <<>>)
           = <<"materialize/materialized", "unstable">>
    /\ Top.entry_compose = LoadedCompose

\* The service names of the SERVICES of the mzcompose.py.
LoadedNames == {LoadedServices[i][1] : i \in 1..Len(Services)}

\* C3: override never introduces a service: in every state the service names
\* of the live specification are those established at load.
OverrideOnlyReplaces == DOMAIN compose.services = LoadedNames

\* C4: when override raises before it yields (munging, deps.acquire() or the
\* pull fails), the live specification and the file are as they were
\* immediately before the call.
OverrideFailureLeavesNoMutation ==
    [][ /\ (exc = NoExc /\ exc'.origin \in {"munge", "acquire"}) =>
               (compose' = compose /\ file' = file)
        /\ (exc = NoExc /\ exc'.origin = "pull") =>
               (compose' = Top.entry_compose /\ file' = Top.entry_file) ]_vars

\* The external up command of a persistent up is running.
PersistentUpRunning == stack # <<>> /\ Top.kind = "up" /\ Top.persistent

\* C5: while the up command of a persistent up runs, every service of the
\* dumped specification has the entrypoint ["sleep", "infinity"] and an empty
\* command; when the call ends, by return or by exception, the live
\* specification and the file are as they were immediately before the call.
PersistentUpAlwaysReverted ==
    [][ /\ PersistentUpRunning =>
               /\ file = Dump(compose)
               /\ \A n \in DOMAIN compose.services :
                      /\ Get(compose.services[n], "entrypoint", None)
                             = <<"sleep", "infinity">>
                      /\ Get(compose.services[n], "command", <<"unset">>)
                             = <<>>
        /\ (PersistentUpRunning /\ stack' = Pop) =>
               (compose' = Top.entry_compose /\ file' = Top.entry_file) ]_vars

\* C6: when a test-case scope ends, whatever its body did, the live
\* specification and the file are as they were when the scope began.
TestCaseLeavesCompositionIntact ==
    [][ Leaving("test_case") =>
            (compose' = Top.entry_compose /\ file' = Top.entry_file) ]_vars

\* The result recorded under the name, in the results after the step.
ResultOf(results, name) ==
    results[CHOOSE i \in 1..Len(results) : results[i].name = name]

HasResult(results, name) == \E i \in 1..Len(results) : results[i].name = name

ResultHasNonEmptyError ==
    [][ (Leaving("test_case") /\ HasResult(test_results', Top.name)
            /\ test_results' # test_results) =>
            LET result == ResultOf(test_results', Top.name)
            IN  /\ result.duration >= 0
                /\ IF exc # NoExc
                   THEN result.error # None /\ result.error # Some("")
                   ELSE result.error = None ]_vars

\* C8 as amended: a scope whose body raises records str(e) as its error, a
\* string that is empty when the exception has no message and that is never
\* None; a scope that ends normally records None; the recorded duration is
\* the clock at the end of the scope less the clock at its start, which is
\* >= 0 on a clock that does not go back.
ResultReflectsOutcome ==
    [][ (Leaving("test_case") /\ (exc = NoExc \/ IsException(exc))) =>
            /\ HasResult(test_results', Top.name)
            /\ LET result == ResultOf(test_results', Top.name)
               IN  /\ result.duration = clock - Top.start_time
                   /\ result.duration >= 0
                   /\ IF exc # NoExc
                      THEN result.error = Some(exc.msg)
                      ELSE result.error = None ]_vars

\* C8 happens: a failed bare assert is recorded with the empty string as its
\* error, after time has passed in the scope, and a scope that ended normally
\* is recorded with None.
EmptyErrorRecorded ==
    /\ Len(test_results) = 2
    /\ test_results[1].error = Some("")
    /\ test_results[1].duration > 0
    /\ test_results[2].error = None

\* C9: test_case(x) with a result for x recorded raises a UIError before the
\* body runs: no scope is opened for a recorded name, and the call that
\* raises opens no scope and leaves the recorded results as they are.
DuplicateTestCaseRejected ==
    [][ /\ (Len(stack') = Len(stack) + 1 /\ Head(stack').kind = "test_case") =>
               ~HasResult(test_results, Head(stack').name)
        /\ (exc = NoExc /\ exc'.origin = "test_case") =>
               /\ exc'.class = "UIError"
               /\ stack' = stack
               /\ test_results' = test_results ]_vars

\* C9 happens: the second test_case of a name has raised, and the result of
\* the first, a failure, is recorded.
DuplicateRaisedFirstKept ==
    /\ exc.origin = "test_case"
    /\ Len(test_results) = 1
    /\ test_results[1].error # None

\* C10: whenever a docker compose command runs, the file holds the dump of
\* the live specification.
FileNeverLagsAtInvoke == Invoking => file = Dump(compose)

\* ---------------------------------------------- claims on _munge_services

\* C11: a call of _munge_services that raises leaves every config of the
\* list, those of the services before the failing one included, as it was
\* passed.
MungeAllOrNothing ==
    munge.state = "raised" => munge.services = munge.before

\* Some port entry of the config has a host binding.
HostBound(c) ==
    \E k \in 1..Len(Get(c, "ports", <<>>)) : HasHostBinding(c["ports"][k])

\* config["mzbuild"] names no image of the repository.
UnknownBuild(c) == Has(c, "mzbuild") /\ c["mzbuild"] \notin RepoImages

\* The host-bound port entries of the config, as passed, are the entries at
\* the same places after the call.
HostBoundVerbatim(before, after) ==
    \A k \in 1..Len(Get(before, "ports", <<>>)) :
        HasHostBinding(before["ports"][k]) =>
            after["ports"][k] = before["ports"][k]

\* C12 as stated: a call on a list with a config that has a host-bound port
\* and no allow_host_ports key raises the disallowed-host-port error,
\* whether ports are preserved or not; and a config with allow_host_ports
\* true does not make the call raise it and keeps its host-bound entries.
HostPortAlwaysDisallowed ==
    munge.calls > 0 =>
        \A i \in 1..Len(munge.before) :
            LET c == munge.before[i][2] IN
            /\ (HostBound(c) /\ ~Has(c, "allow_host_ports")) =>
                   munge.error = "disallowed host port"
            /\ Get(c, "allow_host_ports", FALSE) =>
                   HostBoundVerbatim(c, munge.services[i][2])

\* C12, amended: such a call raises, in both modes; the error is the
\* disallowed-host-port error unless a config at or before the first
\* offending one has an unknown build reference, which raises the
\* unknown-image error first.  With allow_host_ports true for every config
\* that has a host-bound port the call does not raise the host-port error,
\* and the host-bound entries of a config with allow_host_ports true are
\* left verbatim.
HostPortPolicy ==
    munge.calls > 0 =>
        LET n == Len(munge.before)
            Offends(i) == /\ HostBound(munge.before[i][2])
                          /\ ~Get(munge.before[i][2], "allow_host_ports", FALSE)
            offending == {i \in 1..n : Offends(i)}
        IN  /\ offending # {} =>
                LET first == CHOOSE i \in offending :
                                 \A j \in offending : i <= j
                IN  /\ munge.state = "raised"
                    /\ munge.error =
                           IF \E j \in 1..first : UnknownBuild(munge.before[j][2])
                           THEN "unknown image"
                           ELSE "disallowed host port"
            /\ offending = {} => munge.error # "disallowed host port"
            /\ \A i \in 1..n :
                   Get(munge.before[i][2], "allow_host_ports", FALSE) =>
                       HostBoundVerbatim(munge.before[i][2],
                                         munge.services[i][2])

\* C12 happens: with ports preserved, a config of a known image with a plain
\* and a host-bound port and no allow_host_ports has raised the host-port
\* error.
HostPortRejectedPreservingPorts ==
    /\ preserve_ports
    /\ munge.calls = 1
    /\ Len(munge.before) = 1
    /\ Get(munge.before[1][2], "ports", <<>>) = <<PlainPort, HostBoundPort>>
    /\ ~Has(munge.before[1][2], "allow_host_ports")
    /\ munge.state = "raised"
    /\ munge.error = "disallowed host port"

\* How many entries of the list satisfy the test.
Count(seq, Test(_)) == Len(SelectSeq(seq, Test))

IsProfileEntry(entry) == entry[1] = "LLVM_PROFILE_FILE"

\* C13: with coverage active, every config of a call that returned has the
\* coverage volume exactly once and exactly one LLVM_PROFILE_FILE entry, the
\* one made from the name of the service; also a config that was munged
\* before, and one that came with such entries.
CoverageExactlyOne ==
    (coverage /\ munge.state = "returned") =>
        \A i \in 1..Len(munge.services) :
            LET name == munge.services[i][1]
                c == munge.services[i][2]
            IN  /\ Count(c["volumes"], LAMBDA v : v = CoverageVolume) = 1
                /\ Count(c["environment"], IsProfileEntry) = 1
                /\ InSeq(LlvmProfileFile(name), c["environment"])

\* C14: after a call that returned, a config passed with propagate_uid_gid
\* has lost the key; passed with true its user is the uid and gid of the
\* host user, passed with false its user is as it was (none injected).
UidGidPropagated ==
    munge.state = "returned" =>
        \A i \in 1..Len(munge.before) :
            LET b == munge.before[i][2]
                a == munge.services[i][2]
            IN  Has(b, "propagate_uid_gid") =>
                    /\ ~Has(a, "propagate_uid_gid")
                    /\ IF b["propagate_uid_gid"]
                       THEN Has(a, "user") /\ a["user"] = <<HostUid, HostGid>>
                       ELSE /\ Has(a, "user") = Has(b, "user")
                            /\ Has(b, "user") => a["user"] = b["user"]

\* C14 happens: a config passed with propagate_uid_gid true and the user
\* 0:0 came back with the host user and without the key.
UidGidReplacedUser ==
    /\ munge.state = "returned"
    /\ munge.calls = 1
    /\ Get(munge.before[1][2], "propagate_uid_gid", FALSE)
    /\ Get(munge.before[1][2], "user", <<>>) = <<0, 0>>
    /\ munge.services[1][2]["user"] = <<HostUid, HostGid>>
    /\ ~Has(munge.services[1][2], "propagate_uid_gid")

\* --------------------------------------- claims on the live specification

\* The image a Service object's declaration resolves to: the resolver's
\* spec() for a build reference, the declared image otherwise.
ResolvedImage(o) ==
    IF Has(ServiceConfig[o], "mzbuild")
    THEN DepSpec(ServiceConfig[o]["mzbuild"])
    ELSE ServiceConfig[o]["image"]

\* C15: in a Composition constructed with munge_services, whenever a docker
\* compose command runs, no service entry of the live specification has
\* the key mzbuild, propagate_uid_gid or allow_host_ports, and the image of
\* each entry is what the declaration of a Service object of that name
\* resolves to: the resolver's spec() where it declared a build reference.
ExecutedSpecResolved ==
    (munge_services /\ Invoking) =>
        \A n \in DOMAIN compose.services :
            LET c == compose.services[n]
            IN  /\ ~Has(c, "mzbuild")
                /\ ~Has(c, "propagate_uid_gid")
                /\ ~Has(c, "allow_host_ports")
                /\ Has(c, "image")
                /\ \E o \in ServiceObjects :
                       ServiceName[o] = n /\ c["image"] = ResolvedImage(o)

\* C15 happens: inside an override scope that added testdrive, declared by
\* build reference, a command runs and the entries of testdrive and of
\* materialized carry the resolver's images.
ResolvedInsideOverride ==
    /\ munge_services
    /\ Invoking
    /\ Top.kind = "invoke"
    /\ Depth > 0
    /\ "testdrive" \in DOMAIN compose.services
    /\ compose.services["testdrive"]["image"] = DepSpec("testdrive")
    /\ compose.services["materialized"]["image"] = DepSpec("materialized")

\* ---------------------------------------------------------- claims on run

\* The frame is a docker compose command of the kind.
IsCommand(frame, command) == frame.kind = "invoke" /\ frame.command = command

\* C19: the first command of run is the detached up that scales the service
\* to zero, issued with check on; the run command is issued only by the
\* return of that up with exit status zero and carries the caller's check;
\* an up that fails raises and no run command follows; the run command is
\* the last one, and with check off its failure raises nothing.
RunIssuesUpThenRun ==
    [][ /\ (stack' # <<>> /\ IsCommand(Head(stack'), "up")
                /\ Len(stack') > Len(stack)) =>
               /\ AtBody
               /\ Head(stack').args =
                      <<"--detach", "--scale", Head(stack').service, "0">>
               /\ Head(stack').check
               /\ Head(stack').then # None
               /\ IsCommand(Head(stack').then[1], "run")
               /\ Head(stack').then[1].service = Head(stack').service
        /\ (stack' # <<>> /\ IsCommand(Head(stack'), "run")
                /\ (stack = <<>> \/ Head(stack') # Top)) =>
               /\ stack # <<>>
               /\ IsCommand(Top, "up")
               /\ Top.then = Some(Head(stack'))
               /\ Tail(stack') = Pop
               /\ exc' = NoExc
        /\ (stack # <<>> /\ IsCommand(Top, "up") /\ stack' # stack) =>
               \/ stack' = <<Top.then[1]>> \o Pop /\ exc' = NoExc
               \/ stack' = Pop /\ exc'.class = "UIError"
        /\ (stack # <<>> /\ IsCommand(Top, "run") /\ stack' # stack) =>
               /\ stack' = Pop
               /\ ~Top.check => exc' = NoExc ]_vars

\* C19 happens: the zero-scale up of a run with check off has returned and
\* its run command is running.
RunCommandUnchecked ==
    /\ stack # <<>>
    /\ IsCommand(Top, "run")
    /\ ~Top.check
    /\ Top.then = None
    /\ exc = NoExc

\* ------------------------------------------------- claims on the volumes

\* C20: mzdata, pgdata, mydata, tmp and secrets are volumes of the live
\* specification in every state: after the constructor, inside and after
\* override scopes, during and after the up of a persistent service.
DefaultVolumesPresent ==
    {"mzdata", "pgdata", "mydata", "tmp", "secrets"}
        \subseteq DOMAIN compose.volumes

\* C20 happens: inside an override scope, as the third call of the workflow,
\* the up of a persistent service is running on the specification it has
\* changed, and the five volumes are its volumes.
VolumesDuringPersistentUp ==
    /\ stack # <<>>
    /\ Top.kind = "up"
    /\ Top.persistent
    /\ Depth = 1
    /\ calls = 3
    /\ compose # Top.old_compose
    /\ DOMAIN compose.volumes = {"mzdata", "pgdata", "mydata", "tmp", "secrets"}

\* --------------------------------------------------- claims on default_port

\* C17: default_port(service) issues the port command for the private part
\* of the first port entry of the service and returns the host port the
\* command printed; for a service with no port entry it raises the
\* no-ports UIError and issues no command; port raises the not-exposing
\* UIError when the command printed no mapping.
DefaultPortResolvesFirstPort ==
    lookup.state # "not called" =>
        LET ports == Get(compose.services[lookup.service], "ports", <<>>)
        IN  /\ ports = <<>> =>
                   /\ lookup.state = "raised"
                   /\ exc.class = "UIError"
                   /\ exc.msg = "does not expose any ports"
                   /\ lookup.issued = <<>>
            /\ ports # <<>> =>
                   /\ lookup.issued =
                          << <<"port", lookup.service,
                               ports[1][Len(ports[1])]>> >>
                   /\ lookup.state = "returned" =>
                          /\ lookup.stdout \in {Some(<<"0.0.0.0", "49153\n">>),
                                                Some(<<"0.0.0.0", "49154\n">>)}
                          /\ lookup.returned =
                                 IF lookup.stdout[1][2] = "49153\n"
                                 THEN Some(49153) ELSE Some(49154)
                   /\ (lookup.stdout \in {Some(<<>>), Some(<<"\n">>)}) =>
                          /\ lookup.state = "raised"
                          /\ exc.class = "UIError"
                          /\ exc.msg = "is not exposing port"

\* ------------------------------------------------------ claims on workflow

\* C18: a call of workflow with a name that is not registered raises
\* KeyError and invokes nothing; for a function without the parser
\* parameter the arguments are parsed before the call, and with an argument
\* the empty parser does not know the function is not invoked; a function
\* with the parser parameter is invoked with the parser not yet parsed,
\* whatever the arguments.
WorkflowDispatch ==
    [][ Len(dispatch'.log) = Len(dispatch.log) + 1 =>
            LET call == dispatch'.log[Len(dispatch'.log)]
                NotInvoked == stack' = stack /\ ~call.invoked
                Invoked(parsed) ==
                    /\ stack' = <<WorkflowFrame(call.name, call.args, parsed)>>
                                    \o stack
                    /\ call.invoked
                    /\ exc' = NoExc
            IN  IF call.name \notin {"default", "test"}
                THEN exc'.class = "KeyError" /\ NotInvoked
                ELSE IF Workflows[call.name].parameters > 1
                THEN Invoked(FALSE)
                ELSE IF call.args = <<>>
                THEN Invoked(TRUE)
                ELSE exc'.class = "SystemExit" /\ NotInvoked ]_vars

\* C18 happens: the workflow with the parser parameter was invoked with an
\* argument no parser knows and returned without parsing; then the workflow
\* without the parameter was called with the same argument and argparse
\* exited before the function was invoked.
StrayArgumentRejectedBeforeBody ==
    /\ Len(dispatch.log) = 2
    /\ dispatch.log[1] =
           [name |-> "test", args |-> <<"--bogus">>, invoked |-> TRUE]
    /\ dispatch.log[2] =
           [name |-> "default", args |-> <<"--bogus">>, invoked |-> FALSE]
    /\ stack = <<>>
    /\ exc.class = "SystemExit"
    /\ exc.origin = "parse_args"
    /\ exc.left = <<>>

\* -------------------------------------------------- claims on _wait_for_pg

\* The attempt met what the caller expects: with "any" a result that is no
\* error, else the expected rows.
Satisfies(expected, outcome) ==
    /\ ~outcome.raised
    /\ IF expected.any
       THEN outcome.rowcount = -1 \/ outcome.rows # None
       ELSE outcome.rows = Some(expected.rows)

\* The attempt ended with an exception: of connect or execute, or of
\* fetchall where the rows are fetched.
Raising(expected, outcome) ==
    \/ outcome.raised
    \/ ~(expected.any /\ outcome.rowcount = -1) /\ outcome.rows = None

\* No attempt before the last one met the expectation.
NoneSatisfiedBefore(n) ==
    \A k \in 1..n : ~Satisfies(poll.expected, poll.history[k])

\* C16 as stated: the call returns at the first attempt that meets the
\* expectation; when the timeout elapses first it raises the UIError, whose
\* message carries the error of the most recent attempt, whether that
\* attempt raised or returned rows that differ.
ReadinessSurfacesLatestFailure ==
    LET n == Len(poll.history) IN
    /\ poll.state = "returned" =>
           /\ n > 0
           /\ Satisfies(poll.expected, poll.history[n])
           /\ NoneSatisfiedBefore(n - 1)
    /\ poll.state = "polling" => NoneSatisfiedBefore(n)
    /\ poll.state = "raised" =>
           /\ poll.now >= poll.timeout
           /\ NoneSatisfiedBefore(n)
           /\ poll.message = Some(Some(n))

\* C16, amended: the message carries the error of the most recent attempt
\* that raised; an attempt that returned rows that differ is not
\* remembered, and the message carries None when no attempt raised.
ReadinessSurfacesLatestException ==
    LET n == Len(poll.history)
        raising == {k \in 1..n : Raising(poll.expected, poll.history[k])}
    IN
    /\ poll.state = "returned" =>
           /\ n > 0
           /\ Satisfies(poll.expected, poll.history[n])
           /\ NoneSatisfiedBefore(n - 1)
    /\ poll.state = "polling" => NoneSatisfiedBefore(n)
    /\ poll.state = "raised" =>
           /\ poll.now >= poll.timeout
           /\ n > 0
           /\ NoneSatisfiedBefore(n)
           /\ poll.message =
                  Some(IF raising = {} THEN None
                       ELSE Some(CHOOSE k \in raising :
                                     \A j \in raising : j <= k))

\* C16 happens: the first attempt raised, the second returned rows that
\* differ from the expected ones, the timeout elapsed, and the message
\* carries the exception of the first attempt.
TimedOutAfterDifferingRows ==
    /\ poll.state = "raised"
    /\ Len(poll.history) = 2
    /\ poll.history[1].raised
    /\ poll.history[2] = [raised |-> FALSE, rowcount |-> 1,
                          rows |-> Some(<<"2">>)]
    /\ poll.expected = Expected(<<"1">>)
    /\ poll.message = Some(Some(1))

\* ---------------------------------------------------- claims on rm_volumes

\* C21: a call of rm_volumes on the composition named N issues one command,
\* docker volume rm, whose targets are N_v for the volumes v of the call,
\* in their order, and the live specification and its file stay as they are.
RmVolumesTargetsPrefixed ==
    [][ removal' # removal =>
            /\ Len(removal'.commands) = 1
            /\ LET command == removal'.commands[1]
                   options == IF removal'.force THEN 4 ELSE 3
               IN  /\ Len(command) = options + Len(removal'.volumes)
                   /\ SubSeq(command, 1, 3) =
                          << <<"docker">>, <<"volume">>, <<"rm">> >>
                   /\ \A i \in 1..Len(removal'.volumes) :
                          command[options + i] =
                              <<removal.name, "_", removal'.volumes[i]>>
            /\ compose' = compose
            /\ file' = file ]_vars

\* C21 happens: rm_volumes("pgdata") on the composition demo has issued
\* docker volume rm demo_pgdata.
RemovedDemoPgdata ==
    /\ removal.state = "returned"
    /\ removal.name = "demo"
    /\ removal.volumes = <<"pgdata">>
    /\ removal.commands =
           << << <<"docker">>, <<"volume">>, <<"rm">>,
                 <<"demo", "_", "pgdata">> >> >>

\* ------------------------------------------- claims on the ports of munging

\* C22: after a call of _munge_services that returned, every port entry
\* that was passed without a host binding is p:p, the same host port as the
\* container port, when ports are preserved, and is as it was passed when
\* they are not.
PlainPortsPreserved ==
    munge.state = "returned" =>
        \A i \in 1..Len(munge.before) :
            LET passed == Get(munge.before[i][2], "ports", <<>>)
                left == munge.services[i][2]["ports"]
            IN  /\ Len(left) = Len(passed)
                /\ \A k \in 1..Len(passed) :
                       Len(passed[k]) = 1 =>
                           left[k] = IF preserve_ports
                                     THEN <<passed[k][1], passed[k][1]>>
                                     ELSE passed[k]

\* C22 happens: with ports preserved, a config with the ports 6875 and
\* 15432:5432 and allow_host_ports came back with 6875:6875 and 15432:5432.
PlainPortBoundToItself ==
    /\ preserve_ports
    /\ munge.state = "returned"
    /\ munge.calls = 1
    /\ Len(munge.before) = 1
    /\ Get(munge.before[1][2], "ports", <<>>) = <<PlainPort, HostBoundPort>>
    /\ munge.services[1][2]["ports"] = << <<"6875", "6875">>, HostBoundPort >>

\* ------------------------------------------------ claims on one attempt

\* An attempt is made in this step, and met the outcome Met.
Attempted == Len(poll'.history) = Len(poll.history) + 1

Met == poll'.history[Len(poll'.history)]

\* C23: an attempt is made only while no earlier attempt has met the
\* expectation. Expecting "any", the call returns at that attempt exactly
\* when nothing in it raised (connect, execute, and fetchall where the rows
\* are fetched), whatever the rows are. Expecting rows, it returns exactly
\* when the fetched rows equal the expected ones; after rows that differ
\* the call has not returned and is at the head of the loop again.
AttemptReturnsOnExpectation ==
    [][Attempted =>
           /\ NoneSatisfiedBefore(Len(poll.history))
           /\ poll'.state \in {"returned", "polling"}
           /\ IF poll.expected.any
              THEN poll'.state = "returned" <=> ~Raising(poll.expected, Met)
              ELSE /\ poll'.state = "returned" <=>
                          (~Met.raised /\ Met.rows = Some(poll.expected.rows))
                   /\ (~Met.raised /\ Met.rows # None
                           /\ Met.rows # Some(poll.expected.rows)) =>
                          poll'.state = "polling"]_vars

\* C23 happens: expecting "any", the first attempt raised and the second
\* returned the rows 2, with which the call returned.
ReturnedOnAnyRows ==
    /\ poll.expected = AnyResult
    /\ poll.state = "returned"
    /\ Len(poll.history) = 2
    /\ poll.history[1].raised
    /\ poll.history[2] = [raised |-> FALSE, rowcount |-> 1,
                          rows |-> Some(<<"2">>)]

\* C24: _wait_for_pg terminates whatever the attempts meet: eventually it
\* has returned or has raised the UIError of the timeout, and an attempt is
\* started only while the call is in the loop and the timeout has not
\* elapsed.
WaitForPgTerminates ==
    /\ <>(poll.state \in {"returned", "raised"})
    /\ [][Attempted => (poll.state = "polling" /\ poll.now < poll.timeout)]_vars

\* C24 happens: rows were expected, three attempts in a row returned rows
\* that differ, the timeout of 3 elapsed and the UIError was raised.
TimedOutAlwaysMismatching ==
    /\ poll.state = "raised"
    /\ poll.timeout = 3
    /\ ~poll.expected.any
    /\ Len(poll.history) = 3
    /\ \A k \in 1..3 : AttemptGives(poll.expected, poll.history[k]) = "differs"

\* --------------------------------------------- claims on munging again

\* C26 as stated: the configs a call of _munge_services has munged pass
\* through it again, as when override is entered a second time with the same
\* Service objects: the second call returns and leaves them as the first
\* call left them.
MungeIdempotent ==
    munge.calls = 2 =>
        /\ munge.state = "returned"
        /\ munge.services = munge.before

\* ------------------------------------------ claims on the loader context

\* C27 as stated: while the body of a workflow is executing, also after a
\* workflow it called has returned, loader.composition_path is the path of
\* the composition; once the outermost call of workflow has ended, by
\* return or by exception, it is None.
LoaderFollowsWorkflow ==
    /\ (exc = NoExc /\ stack # <<>> /\ Top.kind = "workflow") =>
           dispatch.composition_path = Some("path")
    /\ stack = <<>> => dispatch.composition_path = None

\* ------------------------------------------- claims on the override frame

\* C25 as stated: while the body of an override scope runs, the version
\* tag and the volume map of the live specification and the entry of every
\* service the override does not name are as they were before the override
\* was entered, and the entry of every service it names is the munged
\* config of the replacement, whole.
OverrideFrameCondition ==
    (AtBody /\ stack # <<>> /\ Top.kind = "override") =>
        /\ compose.version = Top.entry_compose.version
        /\ compose.volumes = Top.entry_compose.volumes
        /\ DOMAIN compose.services =
               DOMAIN Top.entry_compose.services \cup DOMAIN Top.replaced
        /\ \A n \in DOMAIN compose.services :
               compose.services[n] =
                   IF n \in DOMAIN Top.replaced
                   THEN Top.replaced[n]
                   ELSE Top.entry_compose.services[n]

\* ------------------------------------------------ claims on test_results

\* A test-case scope completes in this step: its body returned, or raised
\* an exception the scope catches.
Completing == Leaving("test_case") /\ (exc = NoExc \/ Catches(exc))

\* C28 as stated: test_results has one entry for every test-case scope that
\* has completed, nested ones included, in the order of completion: a scope
\* that completes appends the entry of its name and leaves the entries
\* before it as they are, and no other step (the exit of an override, the
\* restore of a persistent up) changes test_results.
TestResultsAppendOnly ==
    [][ /\ Completing =>
               /\ Len(test_results') = Len(test_results) + 1
               /\ SubSeq(test_results', 1, Len(test_results)) = test_results
               /\ test_results'[Len(test_results')].name = Top.name
        /\ ~Completing => test_results' = test_results ]_vars

====
